---- MODULE Spec2Model ----
(***************************************************************************)
(* A model of package sched (src/sched.go): the background sampling loop,  *)
(* its probe pass over the helper goroutine and the relay chain, the       *)
(* circular history buffer under its mutex, the Check hand-off over the    *)
(* unbuffered checkChan, and the Samples() render.                         *)
(*                                                                         *)
(* Durations are in microseconds.  The clock is wall time in units of one  *)
(* completed testSleep: it is read by time.Now() and advances when the     *)
(* loop's time.Sleep returns.                                              *)
(***************************************************************************)
EXTENDS Integers, Sequences, FiniteSets, TLC

(* ------------------------------------------------------------------ *)
(* Program constants                                                    *)
(* ------------------------------------------------------------------ *)

\* sched.go:20-23, in microseconds.
OversleepThreshold == 10
ChanSendThreshold == 10
PingPongThreshold == 10
ChainThreshold == 100

\* sched.go:49 declares historySize = 100; the model keeps the circular
\* buffer's code and scales its capacity down.
historySize == 2

\* sched.go:50 declares numChainRoutines = 20; the model keeps the chain's
\* code and scales its length down.
numChainRoutines == 2

(* ------------------------------------------------------------------ *)
(* Bounds of the model                                                  *)
(* ------------------------------------------------------------------ *)

\* The loop takes a tick only while clock < MaxClock: at most MaxClock - 1
\* sampling passes.
MaxClock == 4

\* Tasks calling Check concurrently.
NumCallers == 2

\* Tasks calling Samples() concurrently.
NumReaders == 1

Callers == 1..NumCallers
Readers == 1..NumReaders
Relays == 1..numChainRoutines

\* The latencies one pass can measure: all four exactly at their thresholds,
\* or one of them just above its threshold and the other three just below.
AtThreshold ==
    [oversleep |-> OversleepThreshold, bufSend |-> ChanSendThreshold,
     pingPong |-> PingPongThreshold, chain |-> ChainThreshold]
Below ==
    [oversleep |-> OversleepThreshold - 1, bufSend |-> ChanSendThreshold - 1,
     pingPong |-> PingPongThreshold - 1, chain |-> ChainThreshold - 1]
Fields == {"oversleep", "bufSend", "pingPong", "chain"}
Measurements ==
    {AtThreshold} \cup {[Below EXCEPT ![f] = @ + 2] : f \in Fields}

VARIABLES
    clock,      \* time.Now()
    loopPc,     \* collectSampleLoop's position
    bad,        \* collectSampleLoop's local bad
    w,          \* collectSampleLoop's local w: the Warner received (0: none)
    s,          \* collectSample's local s
    idx,        \* collectSample's local idx
    out,        \* the loop's Samples() result, then the Warningf argument
    sink,       \* the Warningf calls of the Check being handled: the Warner
                \* called (to) and the table passed, in call order
    mu,         \* the mutex: <<>> unlocked, else the task holding it
    nextIndex,  \* package variable nextIndex
    samples,    \* package variable samples
    bufc,       \* number of values in bufc (capacity 1)
    helperPc,   \* channelHelper's position
    relayPc,    \* each chain goroutine's position
    callerPc,   \* each Check caller's position
    readerPc,   \* each Samples() caller's position
    readerOut,  \* each Samples() caller's result while it returns
    \* History variables: they record what happened and steer nothing.
    recordedAt, \* the start of every sample written to the buffer, in order
    since,      \* since the last accepted Check: was a sample recorded (rec),
                \* did a recorded sample exceed a threshold (exc)
    lastWarned, \* the Check accepted last was handled with a warning
    cur,        \* the Check being handled: its caller, since and lastWarned
                \* as they were when it was accepted (rec, exc, prev), and the
                \* warnings it has caused (warned); NoCheck when none is
    waited,     \* per Check caller: a pass completed while its send waits
    badAt       \* in TrackSpec: the start of the sample that set bad; 0
                \* while bad is unset

history == <<recordedAt, since, lastWarned, cur, waited, badAt>>

\* Number of samples recorded so far.
recorded == Len(recordedAt)

vars == <<clock, loopPc, bad, w, s, idx, out, sink, mu, nextIndex,
          samples, bufc, helperPc, relayPc, callerPc, readerPc, readerOut,
          history>>

(* ------------------------------------------------------------------ *)
(* Data                                                                 *)
(* ------------------------------------------------------------------ *)

\* The zero value of type sample.
ZeroSample ==
    [start |-> 0, oversleep |-> 0, bufSend |-> 0, pingPong |-> 0, chain |-> 0]

\* time.Time.IsZero: the zero Time, which time.Now() never returns.
IsZero(t) == t = 0

Unlocked == <<>>
LoopTask == <<"collectSampleLoop">>
ReaderTask(r) == <<"Samples", r>>

\* No table: Samples() has not returned one (a table's now is never 0).
NoTable == [now |-> 0, rows |-> <<>>]

NoCheck ==
    [caller |-> 0, rec |-> FALSE, exc |-> FALSE, prev |-> FALSE, warned |-> 0]

\* A sample exceeds a threshold: some field is strictly greater than the
\* threshold configured for it.
Threshold ==
    [oversleep |-> OversleepThreshold, bufSend |-> ChanSendThreshold,
     pingPong |-> PingPongThreshold, chain |-> ChainThreshold]
Exceeds(sm) == \E f \in Fields : sm[f] > Threshold[f]

\* Mutant of overThreshold: >= for >.
overThresholdAtOrAbove(sm) ==
    \/ sm.oversleep >= OversleepThreshold
    \/ sm.bufSend >= ChanSendThreshold
    \/ sm.pingPong >= PingPongThreshold
    \/ sm.chain >= ChainThreshold

\* Mutant of overThreshold: the chain duration is not compared.
overThresholdNoChain(sm) ==
    \/ sm.oversleep > OversleepThreshold
    \/ sm.bufSend > ChanSendThreshold
    \/ sm.pingPong > PingPongThreshold

overThreshold(sm) ==
    \/ sm.oversleep > OversleepThreshold
    \/ sm.bufSend > ChanSendThreshold
    \/ sm.pingPong > PingPongThreshold
    \/ sm.chain > ChainThreshold

\* Mutant of Row: no row is marked.
RowNoMarker(sm, now) ==
    [age |-> now - sm.start,
     oversleep |-> sm.oversleep,
     bufSend |-> sm.bufSend,
     pingPong |-> sm.pingPong,
     chain |-> sm.chain,
     hl |-> ""]

\* One Fprintf of Samples: the columns of a row.
Row(sm, now) ==
    [age |-> now - sm.start,
     oversleep |-> sm.oversleep,
     bufSend |-> sm.bufSend,
     pingPong |-> sm.pingPong,
     chain |-> sm.chain,
     hl |-> IF overThreshold(sm) THEN " <---" ELSE ""]

\* Mutant of SampleRows: the loop runs while n <= historySize.
RECURSIVE SampleRowsOffByOne(_, _, _, _)
SampleRowsOffByOne(smp, i, n, now) ==
    IF n > historySize
    THEN <<>>
    ELSE LET j == IF i - 1 < 0 THEN historySize - 1 ELSE i - 1
         IN  IF IsZero(smp[j].start)
             THEN <<>>
             ELSE <<Row(smp[j], now)>>
                      \o SampleRowsOffByOne(smp, j, n + 1, now)

\* Mutant of SampleRows: each row is written before the rows already there.
RECURSIVE SampleRowsOldestFirst(_, _, _, _)
SampleRowsOldestFirst(smp, i, n, now) ==
    IF n >= historySize
    THEN <<>>
    ELSE LET j == IF i - 1 < 0 THEN historySize - 1 ELSE i - 1
         IN  IF IsZero(smp[j].start)
             THEN <<>>
             ELSE SampleRowsOldestFirst(smp, j, n + 1, now)
                      \o <<Row(smp[j], now)>>

\* The loop of Samples: n rows written so far, i the index last visited.
RECURSIVE SampleRows(_, _, _, _)
SampleRows(smp, i, n, now) ==
    IF n >= historySize
    THEN <<>>
    ELSE LET j == IF i - 1 < 0 THEN historySize - 1 ELSE i - 1
         IN  IF IsZero(smp[j].start)
             THEN <<>>
             ELSE <<Row(smp[j], now)>> \o SampleRows(smp, j, n + 1, now)

\* The body of Samples() under the mutex: the table it returns, with the
\* time.Now() its ages are relative to.
SamplesTable(smp, ni, now) ==
    [now |-> now, rows |-> SampleRows(smp, ni, 0, now)]

(* ------------------------------------------------------------------ *)
(* Initial state: after package initialisation (init, sched.go:67-82)   *)
(* ------------------------------------------------------------------ *)

Init ==
    /\ clock = 1
    /\ loopPc = "select"
    /\ bad = FALSE
    /\ w = 0
    /\ s = ZeroSample
    /\ idx = 0
    /\ out = NoTable
    /\ sink = <<>>
    /\ mu = Unlocked
    /\ nextIndex = 0
    /\ samples = [i \in 0..(historySize - 1) |-> ZeroSample]
    /\ bufc = 0
    /\ helperPc = "recv"
    /\ relayPc = [i \in Relays |-> "recv"]
    /\ callerPc = [c \in Callers |-> "idle"]
    /\ readerPc = [r \in Readers |-> "idle"]
    /\ readerOut = [r \in Readers |-> NoTable]
    /\ recordedAt = <<>>
    /\ since = [rec |-> FALSE, exc |-> FALSE]
    /\ lastWarned = FALSE
    /\ cur = NoCheck
    /\ waited = [c \in Callers |-> FALSE]
    /\ badAt = 0

(* ------------------------------------------------------------------ *)
(* collectSampleLoop and collectSample                                  *)
(* ------------------------------------------------------------------ *)

\* case <-ticker.C, then collectSample's s.start = time.Now().  The ticker
\* runs on its own and ticker.C holds one tick: whenever the loop comes to its
\* select a tick may be there, also right after a pass or a Warningf call
\* (the loop was descheduled, took the tick before late, or the call was
\* slow).  The select has no order of preference between its two cases.
TakeTick ==
    /\ loopPc = "select"
    /\ clock < MaxClock
    /\ s' = [ZeroSample EXCEPT !.start = clock]
    /\ loopPc' = "sleep"
    /\ UNCHANGED <<clock, bad, w, idx, out, sink, mu, nextIndex, samples,
                   bufc, helperPc, relayPc, callerPc, readerPc, readerOut>>
    /\ UNCHANGED history

\* time.Sleep(testSleep) returns.
Sleep ==
    /\ loopPc = "sleep"
    /\ clock < MaxClock
    /\ clock' = clock + 1
    /\ loopPc' = "bufsend"
    /\ UNCHANGED <<bad, w, s, idx, out, sink, mu, nextIndex, samples,
                   bufc, helperPc, relayPc, callerPc, readerPc, readerOut>>
    /\ UNCHANGED history

\* bufc <- true: completes when the buffer has room.
BufSend ==
    /\ loopPc = "bufsend"
    /\ bufc < 1
    /\ bufc' = bufc + 1
    /\ loopPc' = "unbufrecv"
    /\ UNCHANGED <<clock, bad, w, s, idx, out, sink, mu, nextIndex,
                   samples, helperPc, relayPc, callerPc, readerPc, readerOut>>
    /\ UNCHANGED history

\* Mutant of HelperRecv: the helper reads the token and leaves it in bufc.
HelperRecvLeavesToken ==
    /\ helperPc = "recv"
    /\ bufc > 0
    /\ helperPc' = "send"
    /\ UNCHANGED <<clock, loopPc, bad, w, s, idx, out, sink, mu, bufc,
                   nextIndex, samples, relayPc, callerPc, readerPc, readerOut>>
    /\ UNCHANGED history

\* channelHelper: <-bufc.
HelperRecv ==
    /\ helperPc = "recv"
    /\ bufc > 0
    /\ bufc' = bufc - 1
    /\ helperPc' = "send"
    /\ UNCHANGED <<clock, loopPc, bad, w, s, idx, out, sink, mu,
                   nextIndex, samples, relayPc, callerPc, readerPc, readerOut>>
    /\ UNCHANGED history

\* Mutant of UnbufHandoff: channelHelper has no for loop and ends after
\* relaying one token.
UnbufHandoffOnce ==
    /\ helperPc = "send"
    /\ loopPc = "unbufrecv"
    /\ helperPc' = "done"
    /\ loopPc' = "headsend"
    /\ UNCHANGED <<clock, bad, w, s, idx, out, sink, mu, nextIndex,
                   samples, bufc, relayPc, callerPc, readerPc, readerOut>>
    /\ UNCHANGED history

\* channelHelper's unbufc <- meets collectSample's <-unbufc.
UnbufHandoff ==
    /\ helperPc = "send"
    /\ loopPc = "unbufrecv"
    /\ helperPc' = "recv"
    /\ loopPc' = "headsend"
    /\ UNCHANGED <<clock, bad, w, s, idx, out, sink, mu, nextIndex,
                   samples, bufc, relayPc, callerPc, readerPc, readerOut>>
    /\ UNCHANGED history

\* head <- true meets the first chain goroutine's <-a.
HeadSend ==
    /\ loopPc = "headsend"
    /\ relayPc[1] = "recv"
    /\ relayPc' = [relayPc EXCEPT ![1] = "send"]
    /\ loopPc' = "tailrecv"
    /\ UNCHANGED <<clock, bad, w, s, idx, out, sink, mu, nextIndex,
                   samples, bufc, helperPc, callerPc, readerPc, readerOut>>
    /\ UNCHANGED history

\* Mutant of RelayHandoff: the chain goroutine has no for loop and ends after
\* relaying one token.
RelayHandoffOnce(i) ==
    /\ i + 1 \in Relays
    /\ relayPc[i] = "send"
    /\ relayPc[i + 1] = "recv"
    /\ relayPc' = [relayPc EXCEPT ![i] = "done", ![i + 1] = "send"]
    /\ UNCHANGED <<clock, loopPc, bad, w, s, idx, out, sink, mu,
                   nextIndex, samples, bufc, helperPc, callerPc, readerPc,
                   readerOut>>
    /\ UNCHANGED history

\* Chain goroutine i's b <- meets goroutine i+1's <-a.
RelayHandoff(i) ==
    /\ i + 1 \in Relays
    /\ relayPc[i] = "send"
    /\ relayPc[i + 1] = "recv"
    /\ relayPc' = [relayPc EXCEPT ![i] = "recv", ![i + 1] = "send"]
    /\ UNCHANGED <<clock, loopPc, bad, w, s, idx, out, sink, mu,
                   nextIndex, samples, bufc, helperPc, callerPc, readerPc,
                   readerOut>>
    /\ UNCHANGED history

\* The last chain goroutine's b <- meets collectSample's <-tail.  The four
\* durations of s are differences of the times read after each step; no other
\* task reads s, and the model draws the four together here, where the last
\* of them is computed.
TailRecv ==
    /\ loopPc = "tailrecv"
    /\ relayPc[numChainRoutines] = "send"
    /\ relayPc' = [relayPc EXCEPT ![numChainRoutines] = "recv"]
    /\ \E m \in Measurements :
           s' = [start |-> s.start, oversleep |-> m.oversleep,
                 bufSend |-> m.bufSend, pingPong |-> m.pingPong,
                 chain |-> m.chain]
    /\ loopPc' = "lock"
    /\ UNCHANGED <<clock, bad, w, idx, out, sink, mu, nextIndex,
                   samples, bufc, helperPc, callerPc, readerPc, readerOut>>
    /\ UNCHANGED history

\* collectSample: mu.Lock().
RecordLock ==
    /\ loopPc = "lock"
    /\ mu = Unlocked
    /\ mu' = LoopTask
    /\ loopPc' = "advance"
    /\ UNCHANGED <<clock, bad, w, s, idx, out, sink, nextIndex,
                   samples, bufc, helperPc, relayPc, callerPc, readerPc,
                   readerOut>>
    /\ UNCHANGED history

\* Mutant of RecordAdvance: the cursor stops at the last slot instead of
\* wrapping to the first.
RecordAdvanceClamped ==
    /\ loopPc = "advance"
    /\ idx' = nextIndex
    /\ nextIndex' = IF nextIndex + 1 < historySize
                    THEN nextIndex + 1
                    ELSE historySize - 1
    /\ loopPc' = "write"
    /\ UNCHANGED <<clock, bad, w, s, out, sink, mu, samples, bufc,
                   helperPc, relayPc, callerPc, readerPc, readerOut>>
    /\ UNCHANGED history

\* idx := nextIndex; nextIndex = (nextIndex + 1) % historySize.
RecordAdvance ==
    /\ loopPc = "advance"
    /\ idx' = nextIndex
    /\ nextIndex' = (nextIndex + 1) % historySize
    /\ loopPc' = "write"
    /\ UNCHANGED <<clock, bad, w, s, out, sink, mu, samples, bufc,
                   helperPc, relayPc, callerPc, readerPc, readerOut>>
    /\ UNCHANGED history

\* Mutant of RecordWrite: samples[nextIndex] = s, the slot after the one
\* reserved.
RecordWriteAtCursor ==
    /\ loopPc = "write"
    /\ recorded < MaxClock
    /\ samples' = [samples EXCEPT ![nextIndex] = s]
    /\ loopPc' = "return"
    /\ UNCHANGED <<clock, bad, w, s, idx, out, sink, mu, nextIndex,
                   bufc, helperPc, relayPc, callerPc, readerPc, readerOut>>
    /\ recordedAt' = Append(recordedAt, s.start)
    /\ since' = [rec |-> TRUE, exc |-> since.exc \/ Exceeds(s)]
    /\ UNCHANGED <<lastWarned, cur, waited, badAt>>

\* samples[idx] = s.
RecordWrite ==
    /\ loopPc = "write"
    /\ recorded < MaxClock
    /\ samples' = [samples EXCEPT ![idx] = s]
    /\ loopPc' = "return"
    /\ UNCHANGED <<clock, bad, w, s, idx, out, sink, mu, nextIndex,
                   bufc, helperPc, relayPc, callerPc, readerPc, readerOut>>
    /\ recordedAt' = Append(recordedAt, s.start)
    /\ since' = [rec |-> TRUE, exc |-> since.exc \/ Exceeds(s)]
    /\ UNCHANGED <<lastWarned, cur, waited, badAt>>

\* Mutant of RecordReturn: bad = overThreshold(&s), which a sample within
\* the thresholds resets.
RecordReturnOverwrites ==
    /\ loopPc = "return"
    /\ mu' = Unlocked
    /\ bad' = overThreshold(s)
    /\ s' = ZeroSample
    /\ idx' = 0
    /\ loopPc' = "select"
    /\ UNCHANGED <<clock, w, out, sink, nextIndex, samples, bufc,
                   helperPc, relayPc, callerPc, readerPc, readerOut>>
    /\ waited' = [c \in Callers |-> callerPc[c] = "send"]
    /\ UNCHANGED <<recordedAt, since, lastWarned, cur, badAt>>

\* return s runs the deferred mu.Unlock(); then the loop's
\* if overThreshold(&s) { bad = true }.  s and idx go out of scope.
RecordReturn ==
    /\ loopPc = "return"
    /\ mu' = Unlocked
    /\ bad' = (bad \/ overThreshold(s))
    /\ s' = ZeroSample
    /\ idx' = 0
    /\ loopPc' = "select"
    /\ UNCHANGED <<clock, w, out, sink, nextIndex, samples, bufc,
                   helperPc, relayPc, callerPc, readerPc, readerOut>>
    /\ waited' = [c \in Callers |-> callerPc[c] = "send"]
    /\ UNCHANGED <<recordedAt, since, lastWarned, cur, badAt>>

(* ------------------------------------------------------------------ *)
(* Check                                                                *)
(* ------------------------------------------------------------------ *)

\* A task calls Check(w) and blocks in checkChan <- w.
CheckCall(c) ==
    /\ callerPc[c] = "idle"
    /\ callerPc' = [callerPc EXCEPT ![c] = "send"]
    /\ UNCHANGED <<clock, loopPc, bad, w, s, idx, out, sink, mu,
                   nextIndex, samples, bufc, helperPc, relayPc, readerPc,
                   readerOut>>
    /\ UNCHANGED history

\* Mutant of CheckAccept: the loop receives from checkChan only while bad is
\* set.
CheckAcceptOnlyWhenBad(c) ==
    /\ loopPc = "select"
    /\ bad
    /\ callerPc[c] = "send"
    /\ callerPc' = [callerPc EXCEPT ![c] = "idle"]
    /\ w' = IF bad THEN c ELSE 0
    /\ loopPc' = IF bad THEN "chk_lock" ELSE "select"
    /\ UNCHANGED <<clock, bad, s, idx, out, sink, mu, nextIndex,
                   samples, bufc, helperPc, relayPc, readerPc, readerOut>>
    /\ cur' = IF loopPc' = "select"
              THEN NoCheck
              ELSE [caller |-> c, rec |-> since.rec, exc |-> since.exc,
                    prev |-> lastWarned, warned |-> 0]
    /\ lastWarned' = FALSE
    /\ since' = [rec |-> FALSE, exc |-> FALSE]
    /\ waited' = [waited EXCEPT ![c] = FALSE]
    /\ UNCHANGED <<recordedAt, badAt>>

\* Mutant of CheckAccept: the caller stays blocked in Check after the loop
\* has received its Warner.
CheckAcceptHoldsCaller(c) ==
    /\ loopPc = "select"
    /\ callerPc[c] = "send"
    /\ w' = IF bad THEN c ELSE 0
    /\ loopPc' = IF bad THEN "chk_lock" ELSE "select"
    /\ UNCHANGED <<clock, bad, s, idx, out, sink, mu, nextIndex, callerPc,
                   samples, bufc, helperPc, relayPc, readerPc, readerOut>>
    /\ cur' = IF loopPc' = "select"
              THEN NoCheck
              ELSE [caller |-> c, rec |-> since.rec, exc |-> since.exc,
                    prev |-> lastWarned, warned |-> 0]
    /\ lastWarned' = FALSE
    /\ since' = [rec |-> FALSE, exc |-> FALSE]
    /\ waited' = [waited EXCEPT ![c] = FALSE]
    /\ UNCHANGED <<recordedAt, badAt>>

\* case w := <-checkChan meets caller c's send: Check returns, and the loop
\* tests bad.  With bad unset the case ends and w goes out of scope.
CheckAccept(c) ==
    /\ loopPc = "select"
    /\ callerPc[c] = "send"
    /\ callerPc' = [callerPc EXCEPT ![c] = "idle"]
    /\ w' = IF bad THEN c ELSE 0
    /\ loopPc' = IF bad THEN "chk_lock" ELSE "select"
    /\ UNCHANGED <<clock, bad, s, idx, out, sink, mu, nextIndex,
                   samples, bufc, helperPc, relayPc, readerPc, readerOut>>
    /\ cur' = IF loopPc' = "select"
              THEN NoCheck
              ELSE [caller |-> c, rec |-> since.rec, exc |-> since.exc,
                    prev |-> lastWarned, warned |-> 0]
    /\ lastWarned' = FALSE
    /\ since' = [rec |-> FALSE, exc |-> FALSE]
    /\ waited' = [waited EXCEPT ![c] = FALSE]
    /\ UNCHANGED <<recordedAt, badAt>>

\* Mutant of CheckRender: the loop's table is written with no row marked.
CheckRenderNoHighlight ==
    /\ loopPc = "chk_lock"
    /\ mu = Unlocked
    /\ mu' = LoopTask
    /\ out' = [now |-> clock,
               rows |-> [k \in 1..Len(SampleRows(samples, nextIndex, 0, clock))
                           |-> [SampleRows(samples, nextIndex, 0, clock)[k]
                                   EXCEPT !.hl = ""]]]
    /\ loopPc' = "chk_ret"
    /\ UNCHANGED <<clock, bad, w, s, idx, sink, nextIndex, samples,
                   bufc, helperPc, relayPc, callerPc, readerPc, readerOut>>
    /\ UNCHANGED history

\* The loop's call of Samples(): mu.Lock(), and the table is written.
CheckRender ==
    /\ loopPc = "chk_lock"
    /\ mu = Unlocked
    /\ mu' = LoopTask
    /\ out' = SamplesTable(samples, nextIndex, clock)
    /\ loopPc' = "chk_ret"
    /\ UNCHANGED <<clock, bad, w, s, idx, sink, nextIndex, samples,
                   bufc, helperPc, relayPc, callerPc, readerPc, readerOut>>
    /\ UNCHANGED history

\* Mutant of CheckReturn: Samples() returns without mu.Unlock().
CheckReturnKeepsLock ==
    /\ loopPc = "chk_ret"
    /\ loopPc' = "warn"
    /\ UNCHANGED <<clock, bad, w, s, idx, out, sink, mu, nextIndex,
                   samples, bufc, helperPc, relayPc, callerPc, readerPc,
                   readerOut>>
    /\ UNCHANGED history

\* The loop's call of Samples() returns: the deferred mu.Unlock().
CheckReturn ==
    /\ loopPc = "chk_ret"
    /\ mu' = Unlocked
    /\ loopPc' = "warn"
    /\ UNCHANGED <<clock, bad, w, s, idx, out, sink, nextIndex,
                   samples, bufc, helperPc, relayPc, callerPc, readerPc,
                   readerOut>>
    /\ UNCHANGED history

\* Mutant of Warn: the Warner called is the first caller's.
WarnFirstCaller ==
    /\ loopPc = "warn"
    /\ sink' = Append(sink, [to |-> 1, table |-> out])
    /\ loopPc' = "clear"
    /\ UNCHANGED <<clock, bad, w, s, idx, out, mu, nextIndex, samples,
                   bufc, helperPc, relayPc, callerPc, readerPc, readerOut>>
    /\ cur' = [cur EXCEPT !.warned = @ + 1]
    /\ lastWarned' = TRUE
    /\ UNCHANGED <<recordedAt, since, waited, badAt>>

\* w.Warningf(..., historySize, Samples()) is called.
Warn ==
    /\ loopPc = "warn"
    /\ sink' = Append(sink, [to |-> w, table |-> out])
    /\ loopPc' = "clear"
    /\ UNCHANGED <<clock, bad, w, s, idx, out, mu, nextIndex, samples,
                   bufc, helperPc, relayPc, callerPc, readerPc, readerOut>>
    /\ cur' = [cur EXCEPT !.warned = @ + 1]
    /\ lastWarned' = TRUE
    /\ UNCHANGED <<recordedAt, since, waited, badAt>>

\* Mutant of Clear: bad is left set.
ClearKeepsBad ==
    /\ loopPc = "clear"
    /\ sink' = <<>>
    /\ out' = NoTable
    /\ w' = 0
    /\ loopPc' = "select"
    /\ UNCHANGED <<clock, bad, s, idx, mu, nextIndex, samples, bufc,
                   helperPc, relayPc, callerPc, readerPc, readerOut>>
    /\ cur' = NoCheck
    /\ UNCHANGED <<recordedAt, since, lastWarned, waited, badAt>>

\* Warningf returns; bad = false.  The case ends: w and the table go out of
\* scope.
Clear ==
    /\ loopPc = "clear"
    /\ sink' = <<>>
    /\ out' = NoTable
    /\ bad' = FALSE
    /\ w' = 0
    /\ loopPc' = "select"
    /\ UNCHANGED <<clock, s, idx, mu, nextIndex, samples, bufc,
                   helperPc, relayPc, callerPc, readerPc, readerOut>>
    /\ cur' = NoCheck
    /\ UNCHANGED <<recordedAt, since, lastWarned, waited, badAt>>

(* ------------------------------------------------------------------ *)
(* Samples() called by other tasks                                      *)
(* ------------------------------------------------------------------ *)

\* Mutant of SamplesRender: the walk decrements nextIndex itself, not a copy.
SamplesRenderMovesCursor(r) ==
    /\ readerPc[r] = "idle"
    /\ mu = Unlocked
    /\ mu' = ReaderTask(r)
    /\ readerOut' = [readerOut EXCEPT
                        ![r] = SamplesTable(samples, nextIndex, clock)]
    /\ nextIndex' = (nextIndex + historySize - Len(readerOut'[r].rows))
                        % historySize
    /\ readerPc' = [readerPc EXCEPT ![r] = "ret"]
    /\ UNCHANGED <<clock, loopPc, bad, w, s, idx, out, sink, samples, bufc,
                   helperPc, relayPc, callerPc>>
    /\ UNCHANGED history

\* Mutant of SamplesRender: the table is written without mu.Lock().
SamplesRenderNoLock(r) ==
    /\ readerPc[r] = "idle"
    /\ readerOut' = [readerOut EXCEPT
                        ![r] = SamplesTable(samples, nextIndex, clock)]
    /\ readerPc' = [readerPc EXCEPT ![r] = "ret"]
    /\ UNCHANGED <<clock, loopPc, bad, w, s, idx, out, sink, mu, nextIndex,
                   samples, bufc, helperPc, relayPc, callerPc>>
    /\ UNCHANGED history

\* A task calls Samples(): mu.Lock(), and the table is written.
SamplesRender(r) ==
    /\ readerPc[r] = "idle"
    /\ mu = Unlocked
    /\ mu' = ReaderTask(r)
    /\ readerOut' = [readerOut EXCEPT
                        ![r] = SamplesTable(samples, nextIndex, clock)]
    /\ readerPc' = [readerPc EXCEPT ![r] = "ret"]
    /\ UNCHANGED <<clock, loopPc, bad, w, s, idx, out, sink, nextIndex,
                   samples, bufc, helperPc, relayPc, callerPc>>
    /\ UNCHANGED history

\* return buf.String() runs the deferred mu.Unlock().
SamplesReturn(r) ==
    /\ readerPc[r] = "ret"
    /\ mu' = Unlocked
    /\ readerOut' = [readerOut EXCEPT ![r] = NoTable]
    /\ readerPc' = [readerPc EXCEPT ![r] = "idle"]
    /\ UNCHANGED <<clock, loopPc, bad, w, s, idx, out, sink, nextIndex,
                   samples, bufc, helperPc, relayPc, callerPc>>
    /\ UNCHANGED history

(* ------------------------------------------------------------------ *)
(* Specification                                                        *)
(* ------------------------------------------------------------------ *)

Next ==
    \/ TakeTick
    \/ Sleep
    \/ BufSend
    \/ HelperRecv
    \/ UnbufHandoff
    \/ HeadSend
    \/ \E i \in Relays : RelayHandoff(i)
    \/ TailRecv
    \/ RecordLock
    \/ RecordAdvance
    \/ RecordWrite
    \/ RecordReturn
    \/ \E c \in Callers : CheckCall(c)
    \/ \E c \in Callers : CheckAccept(c)
    \/ CheckRender
    \/ CheckReturn
    \/ Warn
    \/ Clear
    \/ \E r \in Readers : SamplesRender(r)
    \/ \E r \in Readers : SamplesReturn(r)

Spec == Init /\ [][Next]_vars

(* ------------------------------------------------------------------ *)
(* The loop without an end, for liveness                                *)
(* ------------------------------------------------------------------ *)

\* Spec stops taking ticks at MaxClock.  LiveSpec lets the loop sample for
\* ever: from MaxClock on, passes run as before but the clock and the list of
\* recorded starts stand still, so the timestamps of these late passes are
\* not told apart.  Only the control flow of the late passes is meaningful.

\* TakeTick at MaxClock.
TakeTickLate ==
    /\ loopPc = "select"
    /\ clock = MaxClock
    /\ s' = [ZeroSample EXCEPT !.start = clock]
    /\ loopPc' = "sleep"
    /\ UNCHANGED <<clock, bad, w, idx, out, sink, mu, nextIndex, samples,
                   bufc, helperPc, relayPc, callerPc, readerPc, readerOut>>
    /\ UNCHANGED history

\* Sleep at MaxClock.
SleepLate ==
    /\ loopPc = "sleep"
    /\ clock = MaxClock
    /\ loopPc' = "bufsend"
    /\ UNCHANGED <<clock, bad, w, s, idx, out, sink, mu, nextIndex, samples,
                   bufc, helperPc, relayPc, callerPc, readerPc, readerOut>>
    /\ UNCHANGED history

\* RecordWrite of a late pass.
RecordWriteLate ==
    /\ loopPc = "write"
    /\ recorded = MaxClock
    /\ samples' = [samples EXCEPT ![idx] = s]
    /\ loopPc' = "return"
    /\ UNCHANGED <<clock, bad, w, s, idx, out, sink, mu, nextIndex,
                   bufc, helperPc, relayPc, callerPc, readerPc, readerOut>>
    /\ since' = [rec |-> TRUE, exc |-> since.exc \/ Exceeds(s)]
    /\ UNCHANGED <<recordedAt, lastWarned, cur, waited, badAt>>

LiveNext ==
    \/ Next
    \/ TakeTickLate
    \/ SleepLate
    \/ RecordWriteLate

\* The steps a runnable goroutine takes once the scheduler runs it: the
\* loop's, the helper's and the chain's, and a Samples() caller's return.
\* They have no other guard than the position of the goroutines involved and
\* the room in bufc.
Runs ==
    \/ Sleep \/ SleepLate
    \/ BufSend
    \/ HelperRecv
    \/ UnbufHandoff
    \/ HeadSend
    \/ \E i \in Relays : RelayHandoff(i)
    \/ TailRecv
    \/ RecordAdvance
    \/ RecordWrite \/ RecordWriteLate
    \/ RecordReturn
    \/ CheckReturn
    \/ Warn
    \/ Clear

\* Fairness: runnable goroutines run and Warningf returns (weak); a goroutine
\* blocked in mu.Lock() gets the mutex, which other tasks take and release
\* again and again, and a sender blocked on checkChan is received by the
\* select, which chooses among its ready cases at random (strong).  Nothing
\* obliges a task to call Check or Samples(), nor the ticker to tick.
Fairness ==
    /\ WF_vars(Runs)
    /\ WF_vars(\E r \in Readers : SamplesReturn(r))
    /\ SF_vars(RecordLock)
    /\ SF_vars(CheckRender)
    /\ \A c \in Callers : SF_vars(CheckAccept(c))

LiveSpec == Init /\ [][LiveNext]_vars /\ Fairness

(* ------------------------------------------------------------------ *)
(* Which sample set bad                                                 *)
(* ------------------------------------------------------------------ *)

\* TrackSpec is Spec with one more record kept: badAt, the start of the
\* sample at whose return bad went from unset to set.  The two steps that
\* assign bad keep it; every other step is the step of Spec.

\* RecordReturn, keeping badAt.
RecordReturnTracked ==
    /\ loopPc = "return"
    /\ mu' = Unlocked
    /\ bad' = (bad \/ overThreshold(s))
    /\ s' = ZeroSample
    /\ idx' = 0
    /\ loopPc' = "select"
    /\ UNCHANGED <<clock, w, out, sink, nextIndex, samples, bufc,
                   helperPc, relayPc, callerPc, readerPc, readerOut>>
    /\ waited' = [c \in Callers |-> callerPc[c] = "send"]
    /\ badAt' = IF ~bad /\ bad' THEN s.start ELSE badAt
    /\ UNCHANGED <<recordedAt, since, lastWarned, cur>>

\* Clear, keeping badAt.
ClearTracked ==
    /\ loopPc = "clear"
    /\ sink' = <<>>
    /\ out' = NoTable
    /\ bad' = FALSE
    /\ w' = 0
    /\ loopPc' = "select"
    /\ UNCHANGED <<clock, s, idx, mu, nextIndex, samples, bufc,
                   helperPc, relayPc, callerPc, readerPc, readerOut>>
    /\ cur' = NoCheck
    /\ badAt' = 0
    /\ UNCHANGED <<recordedAt, since, lastWarned, waited>>

TrackNext ==
    \/ TakeTick
    \/ Sleep
    \/ BufSend
    \/ HelperRecv
    \/ UnbufHandoff
    \/ HeadSend
    \/ \E i \in Relays : RelayHandoff(i)
    \/ TailRecv
    \/ RecordLock
    \/ RecordAdvance
    \/ RecordWrite
    \/ RecordReturnTracked
    \/ \E c \in Callers : CheckCall(c)
    \/ \E c \in Callers : CheckAccept(c)
    \/ CheckRender
    \/ CheckReturn
    \/ Warn
    \/ ClearTracked
    \/ \E r \in Readers : SamplesRender(r)
    \/ \E r \in Readers : SamplesReturn(r)

TrackSpec == Init /\ [][TrackNext]_vars

(* ------------------------------------------------------------------ *)
(* What the claims speak of                                             *)
(* ------------------------------------------------------------------ *)

Min(a, b) == IF a <= b THEN a ELSE b

\* The tables Samples() has returned that some task still holds: a caller of
\* Samples() about to return, the loop between its render and the end of the
\* Warningf call, and the Warner given one.
Tables ==
    ({readerOut[r] : r \in Readers} \cup {out}
        \cup {sink[i].table : i \in 1..Len(sink)}) \ {NoTable}

\* The start of the sample a row shows: its age is now - start.
RowStart(tb, i) == tb.now - tb.rows[i].age

RowStarts(tb) == {RowStart(tb, i) : i \in 1..Len(tb.rows)}

\* The rows that carry the over-threshold marker.
Marked(tb) == {i \in 1..Len(tb.rows) : tb.rows[i].hl = " <---"}

\* The starts of the n samples recorded last.
LastRecorded(n) ==
    {recordedAt[i] : i \in (recorded - Min(n, recorded) + 1)..recorded}

(* ------------------------------------------------------------------ *)
(* C1                                                                   *)
(* ------------------------------------------------------------------ *)

\* C1: an accepted Check causes at most one Warningf call; it causes one only
\* if a sample recorded since the Check accepted before it (or since start)
\* exceeded a threshold; and of two Checks accepted with no sample recorded
\* between them, the second does not warn when the first did.
C1_CheckWarnsAtMostOnce ==
    /\ cur.warned <= 1
    /\ Len(sink) <= 1
    /\ Len(sink) = cur.warned
    /\ sink # <<>> => cur.exc
    /\ sink # <<>> => ~(cur.prev /\ ~cur.rec)

\* A Check is being handled that was accepted after an over-threshold sample,
\* and its one warning has been delivered.
C1_Witness ==
    /\ loopPc = "clear"
    /\ Len(sink) = 1
    /\ cur.rec /\ cur.exc
    /\ cur.warned = 1

(* ------------------------------------------------------------------ *)
(* C2                                                                   *)
(* ------------------------------------------------------------------ *)

\* C2: no table returned by Samples(), to a caller or to the loop for its
\* warning, has more sample rows than min(samples recorded so far,
\* historySize).
C2_RowsAtMostRecorded ==
    \A tb \in Tables : Len(tb.rows) <= Min(recorded, historySize)

\* A table rendered after more than historySize samples were recorded: it has
\* historySize rows.
C2_Witness ==
    \E tb \in Tables :
        /\ recorded > historySize
        /\ Len(tb.rows) = historySize

(* ------------------------------------------------------------------ *)
(* C3                                                                   *)
(* ------------------------------------------------------------------ *)

\* C3: once more than historySize samples have been recorded, every table
\* holds exactly the historySize samples recorded last, and none of the
\* recorded - historySize oldest ones.
C3_Wraparound ==
    \A tb \in Tables :
        recorded > historySize =>
            /\ Len(tb.rows) = historySize
            /\ RowStarts(tb) = LastRecorded(historySize)
            /\ \A i \in 1..(recorded - historySize) :
                   recordedAt[i] \notin RowStarts(tb)

\* A caller of Samples() holds a table rendered after the cursor wrapped: the
\* first sample recorded is gone from it.
C3_Witness ==
    \E r \in Readers :
        /\ readerOut[r] # NoTable
        /\ recorded = historySize + 1
        /\ recordedAt[1] \notin RowStarts(readerOut[r])
        /\ recordedAt[recorded] \in RowStarts(readerOut[r])

(* ------------------------------------------------------------------ *)
(* C4                                                                   *)
(* ------------------------------------------------------------------ *)

\* C4: after n <= historySize passes a table has exactly n rows; and in every
\* table, before and after the cursor wraps, the rows are most-recent-first:
\* the starts of successive rows are strictly decreasing, the first row being
\* the sample recorded last.
C4_MostRecentFirst ==
    \A tb \in Tables :
        /\ recorded <= historySize => Len(tb.rows) = recorded
        /\ \A i \in 1..Len(tb.rows) : \A j \in 1..Len(tb.rows) :
               i < j => RowStart(tb, i) > RowStart(tb, j)
        /\ tb.rows # <<>> => RowStart(tb, 1) = recordedAt[recorded]

\* A caller of Samples() holds a table of two rows or more rendered after the
\* cursor wrapped.
C4_Witness ==
    \E r \in Readers :
        /\ readerOut[r] # NoTable
        /\ recorded > historySize
        /\ Len(readerOut[r].rows) >= 2

(* ------------------------------------------------------------------ *)
(* C5                                                                   *)
(* ------------------------------------------------------------------ *)

\* A step of a Samples() call, by another task or by the loop.
SamplesStep ==
    \/ readerPc' # readerPc
    \/ loopPc = "chk_lock" /\ loopPc' = "chk_ret"
    \/ loopPc = "chk_ret" /\ loopPc' = "warn"

\* C5: no step of a Samples() call changes the buffer, the cursor or bad; and
\* while a call of Samples() is in progress after an over-threshold sample
\* that no Check has reported, bad is still set.
C5_SamplesPureRead ==
    /\ [][SamplesStep => UNCHANGED <<samples, nextIndex, bad>>]_vars
    /\ []((\E r \in Readers : readerPc[r] = "ret") /\ since.exc
            /\ loopPc = "select" => bad)

\* A task is inside Samples(), holding its table, between an over-threshold
\* sample and the next Check.
C5_Witness ==
    \E r \in Readers :
        /\ readerPc[r] = "ret"
        /\ readerOut[r].rows # <<>>
        /\ since.exc /\ bad
        /\ loopPc = "select"

(* ------------------------------------------------------------------ *)
(* C6                                                                   *)
(* ------------------------------------------------------------------ *)

\* A printed row shows a duration above its threshold.
RowExceeds(row) == \E f \in Fields : row[f] > Threshold[f]

\* C6 as claimed: no row of a table returned to a caller of Samples() carries
\* the over-threshold marker.
C6_NoHighlight ==
    \A r \in Readers : Marked(readerOut[r]) = {}

\* C6 as amended: a table returned to a caller of Samples() marks exactly the
\* rows whose sample exceeds a threshold; the rows of samples within the
\* thresholds are unmarked.
C6_MarksExceedingRows ==
    \A r \in Readers :
        \A i \in 1..Len(readerOut[r].rows) :
            /\ readerOut[r].rows[i].hl \in {"", " <---"}
            /\ (i \in Marked(readerOut[r])) = RowExceeds(readerOut[r].rows[i])

\* A caller of Samples() holds a table with a marked row and an unmarked row.
C6_Witness ==
    \E r \in Readers :
        /\ Marked(readerOut[r]) # {}
        /\ Marked(readerOut[r]) # 1..Len(readerOut[r].rows)

(* ------------------------------------------------------------------ *)
(* C7                                                                   *)
(* ------------------------------------------------------------------ *)

\* C7: when exactly one sample has been recorded and it exceeds a threshold,
\* bad is set when the loop selects, the Check accepted next is handled with
\* a warning, and that warning is one message whose table has exactly one
\* row, marked, showing that sample.
C7_OnePassOneMarkedRow ==
    /\ [](recorded = 1 /\ since.exc /\ loopPc = "select" => bad)
    /\ [][\A c \in Callers :
            recorded = 1 /\ since.exc
                /\ callerPc[c] = "send" /\ callerPc'[c] = "idle"
            => loopPc' = "chk_lock" /\ cur'.caller = c /\ cur'.exc]_vars
    /\ [](recorded = 1 /\ loopPc = "clear" =>
            /\ Len(sink) = 1
            /\ sink[1].to = cur.caller
            /\ Len(sink[1].table.rows) = 1
            /\ Marked(sink[1].table) = {1}
            /\ RowStart(sink[1].table, 1) = recordedAt[1])

\* The warning for the only sample recorded has been delivered.
C7_Witness ==
    /\ recorded = 1
    /\ loopPc = "clear"
    /\ Len(sink) = 1
    /\ Marked(sink[1].table) = {1}

(* ------------------------------------------------------------------ *)
(* C8                                                                   *)
(* ------------------------------------------------------------------ *)

\* C8: when collectSample returns, a sample with every field at or below its
\* threshold leaves bad as it was, and a sample with a field strictly above
\* its threshold sets bad; and a Check warns only after a sample with a field
\* strictly above its threshold.
C8_StrictlyGreater ==
    /\ [][loopPc = "return" /\ loopPc' = "select" =>
            /\ (\A f \in Fields : s[f] <= Threshold[f]) => bad' = bad
            /\ (\E f \in Fields : s[f] > Threshold[f]) => bad']_vars
    /\ [](sink # <<>> => cur.exc)

\* The only sample recorded has every field equal to its threshold, and bad
\* is not set.
C8_Witness ==
    /\ recorded = 1
    /\ loopPc = "select"
    /\ \A f \in Fields : samples[0][f] = Threshold[f]
    /\ ~bad

(* ------------------------------------------------------------------ *)
(* C9                                                                   *)
(* ------------------------------------------------------------------ *)

\* C9 as claimed, its bound: while a Check call waits, the loop completes at
\* most one pass (no pass completes for a caller that has already waited
\* through the completion of one).
C9_AtMostOnePass ==
    [][\A c \in Callers :
          callerPc[c] = "send" /\ waited[c]
          => ~(loopPc = "return" /\ loopPc' = "select")]_vars

\* C9 as amended: a Check call stays blocked until the loop, in its select,
\* accepts it; the loop may complete any number of passes meanwhile; under
\* Fairness every Check call is eventually accepted and returns.
C9_BlocksUntilAccepted ==
    /\ [][\A c \in Callers :
            callerPc[c] = "send" /\ callerPc'[c] # "send"
            => loopPc = "select" /\ callerPc'[c] = "idle"]_vars
    /\ \A c \in Callers : (callerPc[c] = "send") ~> (callerPc[c] = "idle")

\* A Check call has waited through the completion of one pass and still
\* waits while the loop is about to complete another.
C9_Witness ==
    \E c \in Callers :
        /\ callerPc[c] = "send"
        /\ waited[c]
        /\ loopPc = "return"

(* ------------------------------------------------------------------ *)
(* C10                                                                  *)
(* ------------------------------------------------------------------ *)

\* C10: a Check call returns only by being accepted by the loop in its
\* select, one call per step, and each accepted request is one call's; a
\* request accepted after an over-threshold sample is handled with a warning,
\* one message, and every message goes to the Warner of the call being
\* handled; a warning is delivered only for a Check accepted after a sample
\* recorded since the Check accepted before it, so of calls racing after one
\* over-threshold sample the one accepted first is warned and no other.
C10_OneAtATime ==
    /\ [][\A c \in Callers :
            callerPc[c] = "send" /\ callerPc'[c] = "idle"
            => /\ loopPc = "select"
               /\ \A d \in Callers \ {c} : callerPc'[d] = callerPc[d]
               /\ loopPc' # "select" => cur'.caller = c
               /\ since.exc => loopPc' = "chk_lock" /\ cur'.caller = c]_vars
    /\ [][cur' # cur /\ cur'.caller # 0 /\ cur'.warned = 0
            => /\ callerPc[cur'.caller] = "send"
               /\ callerPc'[cur'.caller] = "idle"]_vars
    /\ [](\A i \in 1..Len(sink) : sink[i].to = cur.caller)
    /\ [](loopPc = "clear" => Len(sink) = 1)
    /\ [](sink # <<>> => cur.rec /\ cur.exc)

\* One over-threshold sample was recorded, two Check calls raced, and the one
\* accepted first has the warning while the other still waits.
C10_Witness ==
    /\ recorded = 1
    /\ loopPc = "clear"
    /\ Len(sink) = 1
    /\ \E d \in Callers : d # sink[1].to /\ callerPc[d] = "send"

(* ------------------------------------------------------------------ *)
(* C11                                                                  *)
(* ------------------------------------------------------------------ *)

\* The loop's positions inside collectSample before the slot is written.
BeforeWrite ==
    {"sleep", "bufsend", "unbufrecv", "headsend", "tailrecv", "lock",
     "advance", "write"}

\* The slot written last.
Newest == samples[(nextIndex + historySize - 1) % historySize]

\* C11: whenever the loop waits in its select, bad is set iff a sample
\* recorded since the last Check handled (or since start) exceeded a
\* threshold; a pass never clears bad: during a pass bad is as it was at the
\* select, and when collectSample returns a sample within the thresholds bad
\* stays set if it was.
C11_BadIffExceededSinceCheck ==
    /\ loopPc = "select" => (bad <=> since.exc)
    /\ loopPc \in BeforeWrite => (bad <=> since.exc)
    /\ loopPc = "return" => (since.exc <=> (bad \/ Exceeds(s)))
    /\ loopPc = "return" /\ ~Exceeds(s) => (bad <=> since.exc)

\* The loop waits in its select with bad set by an earlier sample, and the
\* sample recorded last is within the thresholds.
C11_Witness ==
    /\ loopPc = "select"
    /\ bad /\ since.exc
    /\ recorded >= 2
    /\ ~Exceeds(Newest)

(* ------------------------------------------------------------------ *)
(* C12                                                                  *)
(* ------------------------------------------------------------------ *)

\* The loop's positions inside the critical section of a record, and inside
\* that of its own render.
Recording == {"advance", "write", "return"}
LoopRendering == {"chk_ret"}

\* A table shows the buffer as it is between two records: the samples
\* recorded last, as many as were recorded up to historySize.
AtRecordBoundary(tb) ==
    /\ nextIndex = recorded % historySize
    /\ Len(tb.rows) = Min(recorded, historySize)
    /\ RowStarts(tb) = LastRecorded(historySize)

\* C12: a render and a record never interleave.  A task inside Samples()
\* holds the mutex and so does the loop inside a record or its own render, so
\* no render is in progress while the cursor has advanced and the slot is
\* not yet written; and every table rendered shows the cursor and the slots
\* as they are between two records.
C12_RenderRecordExclusive ==
    /\ \A r \in Readers : readerPc[r] = "ret" => mu = ReaderTask(r)
    /\ loopPc \in Recording \cup LoopRendering => mu = LoopTask
    /\ \A r \in Readers :
           readerPc[r] = "ret" =>
               /\ loopPc \notin Recording \cup LoopRendering
               /\ AtRecordBoundary(readerOut[r])
    /\ loopPc \in LoopRendering =>
           /\ \A r \in Readers : readerPc[r] # "ret"
           /\ AtRecordBoundary(out)

\* A task is inside Samples() with its table while the loop, its pass done,
\* waits for the mutex to record.
C12_Witness ==
    \E r \in Readers :
        /\ readerPc[r] = "ret"
        /\ mu = ReaderTask(r)
        /\ loopPc = "lock"
        /\ recorded >= 1
        /\ readerOut[r].rows # <<>>

(* ------------------------------------------------------------------ *)
(* C13                                                                  *)
(* ------------------------------------------------------------------ *)

\* The loop's positions outside record and render: waiting in its select,
\* sleeping, blocked on a channel operation of a probe step, about to lock
\* the mutex, and around the Warningf call.
OutsideLock ==
    {"select", "sleep", "bufsend", "unbufrecv", "headsend", "tailrecv",
     "lock", "chk_lock", "warn", "clear"}

\* C13: the loop holds the mutex only inside a record and inside its own
\* render: at every other position (select, sleep, the channel operations of
\* the probe steps, the Warningf call) it does not hold it, and when it comes
\* to lock the mutex for its render or its record it is not the holder.
C13_LockOnlyInRecordAndRender ==
    /\ loopPc \in OutsideLock => mu # LoopTask
    /\ mu = LoopTask => loopPc \in Recording \cup LoopRendering
    /\ mu \in {Unlocked, LoopTask} \cup {ReaderTask(r) : r \in Readers}

\* While the Warningf call of the loop runs, a task is inside Samples() and
\* holds the mutex.
C13_Witness ==
    \E r \in Readers :
        /\ loopPc = "clear"
        /\ Len(sink) = 1
        /\ readerPc[r] = "ret"
        /\ mu = ReaderTask(r)

(* ------------------------------------------------------------------ *)
(* C14                                                                  *)
(* ------------------------------------------------------------------ *)

\* The chain goroutines holding a token: each is blocked sending it on.
Relaying == {i \in Relays : relayPc[i] = "send"}

\* C14: the chain is the numChainRoutines goroutines started by init, each
\* always inside its for loop (receiving from its predecessor or sending to
\* its successor), before and after any number of passes; whenever the loop
\* waits in its select, and at every position but its wait for the token at
\* the tail, every chain goroutine is blocked receiving and no token is in
\* the chain; while the loop waits at the tail exactly one token is in it.
C14_ChainPersistent ==
    /\ DOMAIN relayPc = Relays
    /\ Cardinality(DOMAIN relayPc) = numChainRoutines
    /\ \A i \in Relays : relayPc[i] \in {"recv", "send"}
    /\ loopPc = "select" => \A i \in Relays : relayPc[i] = "recv"
    /\ loopPc # "tailrecv" => Relaying = {}
    /\ loopPc = "tailrecv" => Cardinality(Relaying) = 1

\* The loop is back in its select after two passes or more, the chain as
\* init left it.
C14_Witness ==
    /\ loopPc = "select"
    /\ recorded >= 2
    /\ \A i \in Relays : relayPc[i] = "recv"

(* ------------------------------------------------------------------ *)
(* C15                                                                  *)
(* ------------------------------------------------------------------ *)

\* The helper and the chain are as init left them: every goroutine blocked
\* receiving, none on a send.
HelpersAtRest ==
    /\ helperPc = "recv"
    /\ bufc = 0
    /\ \A i \in Relays : relayPc[i] = "recv"

\* C15: under Fairness every pass terminates: once the loop has taken a tick
\* it comes back to its select, in the first pass and in every later one,
\* with the helper and every chain goroutine blocked receiving again, so
\* none stays blocked on a send; the buffer and the cursor change only in
\* the record of a pass, and when collectSample returns the pass's sample is
\* the one slot written, the cursor one past it.
C15_PassTerminates ==
    /\ (loopPc = "sleep") ~> (loopPc = "select" /\ HelpersAtRest)
    /\ [][samples' # samples => loopPc = "write" /\ loopPc' = "return"]_vars
    /\ [][nextIndex' # nextIndex
            => loopPc = "advance" /\ loopPc' = "write"]_vars
    /\ [](loopPc = "return" =>
            /\ samples[idx] = s
            /\ nextIndex = (idx + 1) % historySize)

\* The loop is in its select again after a second pass.
C15_Witness ==
    /\ loopPc = "select"
    /\ HelpersAtRest
    /\ recorded = 2
    /\ Newest.start = recordedAt[2]

(* ------------------------------------------------------------------ *)
(* C16                                                                  *)
(* ------------------------------------------------------------------ *)

\* The tokens between the loop's send on bufc and its receive on unbufc: in
\* bufc, or held by channelHelper blocked sending on unbufc.
PingPongTokens == bufc + (IF helperPc = "send" THEN 1 ELSE 0)

Written == {i \in DOMAIN samples : ~IsZero(samples[i].start)}

\* The rows the backward walk writes from the present cursor.
Walk == SampleRows(samples, nextIndex, 0, clock)

\* C17: the cursor lies in [0, historySize); outside the record's critical
\* section, which advances the cursor and then writes the slot, it equals
\* the number of samples recorded mod historySize, and during it the slot
\* reserved does; the slots written are exactly the indices below
\* min(recorded, historySize), so those never written are the contiguous
\* rest; and the backward walk from the cursor, after each record and from
\* then on, visits every slot written exactly once: as many rows as slots
\* written, showing their starts.
C17_CursorAndSlots ==
    /\ nextIndex \in 0..(historySize - 1)
    /\ loopPc # "write" => nextIndex = recorded % historySize
    /\ loopPc = "write" =>
           /\ idx = recorded % historySize
           /\ nextIndex = (idx + 1) % historySize
    /\ Written = 0..(Min(recorded, historySize) - 1)
    /\ loopPc \in {"return", "select"} =>
           LET rows == Walk
           IN  /\ Len(rows) = Min(recorded, historySize)
               /\ {clock - rows[k].age : k \in 1..Len(rows)}
                      = {samples[i].start : i \in Written}

\* The buffer is partly filled: slots written and slots never written.
C17_Witness ==
    /\ loopPc = "select"
    /\ recorded > 0
    /\ recorded < historySize
    /\ Written # {}
    /\ Written # DOMAIN samples

(* ------------------------------------------------------------------ *)
(* C18                                                                  *)
(* ------------------------------------------------------------------ *)

\* The loop's positions between receiving a Warner with bad set and calling
\* its Warningf.
BeforeWarningf == {"chk_lock", "chk_ret", "warn"}

\* C18 as claimed: in no state has the Check call whose request the loop is
\* handling returned to its caller while the loop has yet to call Warningf
\* for it.
C18_WarnedByReturn ==
    \A c \in Callers :
        ~(/\ cur.caller = c
          /\ cur.warned = 0
          /\ loopPc \in BeforeWarningf
          /\ callerPc[c] = "idle")

\* C18 as amended: a Check call returns in the step in which the loop
\* receives its Warner, with no warning delivered yet; the warning it causes
\* is delivered afterwards by the loop, to that call's Warner: none before
\* the loop has rendered the table, one once Warningf is called, and none
\* outside the handling of a request.
C18_ReturnsBeforeWarningf ==
    /\ [][loopPc = "select" /\ loopPc' = "chk_lock" =>
            \E c \in Callers :
                /\ callerPc[c] = "send" /\ callerPc'[c] = "idle"
                /\ cur'.caller = c /\ w' = c
                /\ sink' = <<>>]_vars
    /\ [](loopPc \in BeforeWarningf =>
            /\ sink = <<>>
            /\ cur.warned = 0
            /\ cur.caller = w /\ w \in Callers)
    /\ [](loopPc = "clear" =>
            /\ Len(sink) = 1
            /\ sink[1].to = w /\ cur.caller = w)
    /\ [](loopPc \notin BeforeWarningf \cup {"clear"} =>
            sink = <<>> /\ w = 0)

\* A Check call has returned and its caller runs on, while the loop is about
\* to call Warningf for it.
C18_Witness ==
    /\ loopPc = "warn"
    /\ sink = <<>>
    /\ cur.caller \in Callers
    /\ callerPc[cur.caller] = "idle"
    /\ out.rows # <<>>

(* ------------------------------------------------------------------ *)
(* C19                                                                  *)
(* ------------------------------------------------------------------ *)

\* The rows of a table that show the sample started at t.
RowsOf(tb, t) == {k \in 1..Len(tb.rows) : RowStart(tb, k) = t}

\* C19 as claimed: every warning delivered has a table with at least one
\* marked row.
C19_WarningHasMarkedRow ==
    \A i \in 1..Len(sink) : Marked(sink[i].table) # {}

\* C19 as amended: every warning delivered shows the samples recorded last,
\* up to historySize of them, and marks exactly those that exceed a
\* threshold; the sample that set bad is in the table, in a marked row, iff
\* fewer than historySize samples were recorded after it; and when none of
\* the samples recorded last exceeds a threshold no row is marked.
C19_MarkedWhileInBuffer ==
    \A i \in 1..Len(sink) :
        LET tb == sink[i].table
        IN  /\ badAt # 0
            /\ badAt \in {recordedAt[k] : k \in 1..recorded}
            /\ RowStarts(tb) = LastRecorded(historySize)
            /\ \A k \in 1..Len(tb.rows) :
                   (k \in Marked(tb)) = RowExceeds(tb.rows[k])
            /\ (badAt \in LastRecorded(historySize)) = (RowsOf(tb, badAt) # {})
            /\ RowsOf(tb, badAt) \subseteq Marked(tb)
            /\ (Marked(tb) = {}) =
                   (\A j \in DOMAIN samples : ~overThreshold(samples[j]))

\* A warning is delivered whose table has no marked row: historySize
\* samples within the thresholds were recorded after the one that set bad.
C19_Witness ==
    /\ loopPc = "clear"
    /\ Len(sink) = 1
    /\ badAt # 0
    /\ badAt \notin LastRecorded(historySize)
    /\ Len(sink[1].table.rows) = historySize
    /\ Marked(sink[1].table) = {}

====
